---- MODULE Spec2Model ----
(***************************************************************************)
(* Model of g2core cycle_feedhold.cpp: the operation runner (cmOperation)  *)
(* and the feedhold request sequencing built on top of it.                 *)
(***************************************************************************)
EXTENDS Integers, Sequences, FiniteSets, TLC

VARIABLES op, h, fault, cm1, cm2, cm, mp, mr, mp1, mp2, mr1, mr2, ext

vars == <<op, h, fault, cm1, cm2, cm, mp, mr, mp1, mp2, mr1, mr2, ext>>

(***************************************************************************)
(* Program constants                                                       *)
(***************************************************************************)
PARAM_MAX == 4
ACTION_MAX == 12

(***************************************************************************)
(* Bounds of the model                                                     *)
(***************************************************************************)
\* number of distinct non-NULL parameter vectors a caller may pass
MaxParam == 1
\* longest operation queued by the harness that passes parameter vectors
MaxParamLen == 3
\* number of cm_request_feedhold calls in a behaviour
MaxFeedholdRequests == 2
\* the first request may ask for any final state; the later ones ask for one
\* of the first MaxLaterFinals of FinalOrder
MaxLaterFinals == 1

(***************************************************************************)
(* Status codes and pointers                                               *)
(***************************************************************************)
STAT_OK == "STAT_OK"
STAT_EAGAIN == "STAT_EAGAIN"
STAT_NOOP == "STAT_NOOP"
STAT_COMMAND_NOT_ACCEPTED == "STAT_COMMAND_NOT_ACCEPTED"
STAT_INPUT_EXCEEDS_MAX_LENGTH == "STAT_INPUT_EXCEEDS_MAX_LENGTH"
\* statuses an action may use to report an error
ErrorCodes == {"STAT_ERROR", "STAT_ALARM"}
\* the processor has jumped through a wild pointer: no status is returned
FAULT == "FAULT"

\* slots are action[0..ACTION_MAX-1], written 1..ACTION_MAX; 0 is the NULL pointer
NULL == 0
NULLFUNC == "NULL"
Slots == 1..ACTION_MAX

\* float *param == nullptr
nullptr == <<>>
ZeroParam == [i \in 1..PARAM_MAX |-> 0]
ParamVectors == {[i \in 1..PARAM_MAX |-> 10 * v + i] : v \in 1..MaxParam}

\* test actions of the runner harness: the k-th add_action call of an
\* operation passes StubName[k]
StubName == <<"a1", "a2", "a3", "a4", "a5", "a6", "a7", "a8", "a9", "a10",
              "a11", "a12", "a13">>
Stubs == {StubName[i] : i \in 1..Len(StubName)}

(***************************************************************************)
(* cmAction / cmOperation                                                  *)
(***************************************************************************)
\* action[i].nx as set up by cmOperation::reset
nx(i) == IF i = ACTION_MAX THEN NULL ELSE i + 1

\* mutant: reset that forgets to clear in_operation
reset_busy(m) ==
    [m EXCEPT !.op = [func |-> [i \in Slots |-> NULLFUNC],
                      param |-> m.op.param,
                      add |-> 1,
                      run |-> 1,
                      in_operation |-> m.op.in_operation]]

\* cmOperation::reset: clears every function pointer (cmAction::reset),
\* leaves param[] as it is, rewinds both pointers
reset(m) ==
    [m EXCEPT !.op = [func |-> [i \in Slots |-> NULLFUNC],
                      param |-> m.op.param,
                      add |-> 1,
                      run |-> 1,
                      in_operation |-> FALSE]]

\* mutant: add_action without the in_operation test
add_action_unguarded(m, f, p) ==
    IF m.op.add = NULL THEN [m |-> m, status |-> STAT_INPUT_EXCEEDS_MAX_LENGTH]
    ELSE [m |-> [m EXCEPT !.op.func[m.op.add] = f,
                          !.op.param[m.op.add] =
                              IF p # nullptr
                              THEN [i \in 1..PARAM_MAX |-> p[i]]
                              ELSE @,
                          !.op.add = nx(m.op.add)],
          status |-> STAT_OK]

\* mutant: add_action that reuses the last slot when the list is full
add_action_overwrite(m, f, p) ==
    IF m.op.in_operation THEN [m |-> m, status |-> STAT_COMMAND_NOT_ACCEPTED]
    ELSE IF m.op.add = NULL
         THEN [m |-> [m EXCEPT !.op.func[ACTION_MAX] = f],
               status |-> STAT_INPUT_EXCEEDS_MAX_LENGTH]
    ELSE [m |-> [m EXCEPT !.op.func[m.op.add] = f,
                          !.op.param[m.op.add] =
                              IF p # nullptr
                              THEN [i \in 1..PARAM_MAX |-> p[i]]
                              ELSE @,
                          !.op.add = nx(m.op.add)],
          status |-> STAT_OK]

\* cmOperation::add_action; p = nullptr leaves the slot's param[] untouched
add_action(m, f, p) ==
    IF m.op.in_operation THEN [m |-> m, status |-> STAT_COMMAND_NOT_ACCEPTED]
    ELSE IF m.op.add = NULL THEN [m |-> m, status |-> STAT_INPUT_EXCEEDS_MAX_LENGTH]
    ELSE [m |-> [m EXCEPT !.op.func[m.op.add] = f,
                          !.op.param[m.op.add] =
                              IF p # nullptr
                              THEN [i \in 1..PARAM_MAX |-> p[i]]
                              ELSE @,
                          !.op.add = nx(m.op.add)],
          status |-> STAT_OK]

\* what a test action returns: st, with the outcome a of the add_action
\* call it made from inside kept in the record of the handler
StubReturn(m, a, st) ==
    [m |-> [a.m EXCEPT !.h.nested = [status |-> a.status,
                                     changed |-> a.m.op # m.op]],
     status |-> st]

\* a test action: the oracle o fixes what the invocations of one
\* run_operation call return (the first o.k return STAT_OK, the next one
\* returns o.t) and which invocation, if any, calls add_action itself
StubAction(m, o, i, f, p) ==
    StubReturn(m, IF o.nest = i
                  THEN add_action(m, StubName[Len(m.h.queued) + 1], nullptr)
                  ELSE [m |-> m, status |-> "none"],
               IF i <= o.k THEN STAT_OK ELSE o.t)

(***************************************************************************)
(* Canonical machine state used by the feedhold code                       *)
(***************************************************************************)
FEEDHOLD_OFF == "FEEDHOLD_OFF"
FEEDHOLD_REQUESTED == "FEEDHOLD_REQUESTED"
FEEDHOLD_SYNC == "FEEDHOLD_SYNC"
FEEDHOLD_HOLD_ACTION_START == "FEEDHOLD_HOLD_ACTION_START"
FEEDHOLD_HOLD_PENDING == "FEEDHOLD_HOLD_PENDING"
FEEDHOLD_HOLD_DONE == "FEEDHOLD_HOLD_DONE"
FEEDHOLD_HOLD == "FEEDHOLD_HOLD"
FEEDHOLD_HOLD_EXIT_PENDING == "FEEDHOLD_HOLD_EXIT_PENDING"
FEEDHOLD_HOLD_EXIT_DONE == "FEEDHOLD_HOLD_EXIT_DONE"

FEEDHOLD_TYPE_ACTIONS == "FEEDHOLD_TYPE_ACTIONS"
FEEDHOLD_TYPE_NO_ACTIONS == "FEEDHOLD_TYPE_NO_ACTIONS"
FEEDHOLD_TYPE_SYNC == "FEEDHOLD_TYPE_SYNC"
HoldTypes == {FEEDHOLD_TYPE_ACTIONS, FEEDHOLD_TYPE_NO_ACTIONS, FEEDHOLD_TYPE_SYNC}

FEEDHOLD_FINAL_CYCLE == "FEEDHOLD_FINAL_CYCLE"
FEEDHOLD_FINAL_STOP == "FEEDHOLD_FINAL_STOP"
FEEDHOLD_FINAL_END == "FEEDHOLD_FINAL_END"
FEEDHOLD_FINAL_ALARM == "FEEDHOLD_FINAL_ALARM"
FEEDHOLD_FINAL_SHUTDOWN == "FEEDHOLD_FINAL_SHUTDOWN"
FEEDHOLD_FINAL_INTERLOCK == "FEEDHOLD_FINAL_INTERLOCK"
HoldFinals == {FEEDHOLD_FINAL_CYCLE, FEEDHOLD_FINAL_STOP, FEEDHOLD_FINAL_END,
               FEEDHOLD_FINAL_ALARM, FEEDHOLD_FINAL_SHUTDOWN,
               FEEDHOLD_FINAL_INTERLOCK}

FLUSH_OFF == "FLUSH_OFF"
FLUSH_REQUESTED == "FLUSH_REQUESTED"
FLUSH_WAS_RUN == "FLUSH_WAS_RUN"

CYCLE_START_OFF == "CYCLE_START_OFF"
CYCLE_START_REQUESTED == "CYCLE_START_REQUESTED"

MOTION_STOP == "MOTION_STOP"
MOTION_RUN == "MOTION_RUN"

MOTION_MODE_CANCEL_MOTION_MODE == "MOTION_MODE_CANCEL_MOTION_MODE"
ABSOLUTE_OVERRIDE_OFF == "ABSOLUTE_OVERRIDE_OFF"
INCREMENTAL_DISTANCE_MODE == "INCREMENTAL_DISTANCE_MODE"

\* the axes kept by the model of a position or flag vector
Axes == {"X", "Z"}
ZeroVector == [a \in Axes |-> 0]
NoFlags == [a \in Axes |-> FALSE]

\* the action functions of this file
EntryFn(type) ==
    CASE type = FEEDHOLD_TYPE_ACTIONS -> "_feedhold_with_actions"
      [] type = FEEDHOLD_TYPE_NO_ACTIONS -> "_feedhold_with_no_actions"
      [] type = FEEDHOLD_TYPE_SYNC -> "_feedhold_with_sync"
      [] OTHER -> NULLFUNC
ExitFn(type) ==
    CASE type = FEEDHOLD_TYPE_ACTIONS -> "_feedhold_exit_with_actions"
      [] type = FEEDHOLD_TYPE_NO_ACTIONS -> "_feedhold_exit_with_no_actions"
      [] OTHER -> NULLFUNC
FinalFn(final) ==
    CASE final = FEEDHOLD_FINAL_CYCLE -> "_cycle_exit"
      [] final = FEEDHOLD_FINAL_STOP -> "_program_stop"
      [] final = FEEDHOLD_FINAL_END -> "_program_end"
      [] final = FEEDHOLD_FINAL_ALARM -> "_alarm"
      [] final = FEEDHOLD_FINAL_SHUTDOWN -> "_shutdown"
      [] final = FEEDHOLD_FINAL_INTERLOCK -> "_interlock"
      [] OTHER -> NULLFUNC
EntryFns == {EntryFn(t) : t \in HoldTypes}
ExitFns == {"_feedhold_exit_with_actions", "_feedhold_exit_with_no_actions"}
FinalFns == {FinalFn(f) : f \in HoldFinals}
FinalOrder == <<FEEDHOLD_FINAL_CYCLE, FEEDHOLD_FINAL_STOP, FEEDHOLD_FINAL_END,
                FEEDHOLD_FINAL_ALARM, FEEDHOLD_FINAL_SHUTDOWN,
                FEEDHOLD_FINAL_INTERLOCK>>

\* op.add_action(f, nullptr) as the feedhold code calls it: the status is
\* dropped by the caller; the call is kept in the record of the handler
op_add(m, f) ==
    LET r == add_action(m, f, nullptr)
    IN [r.m EXCEPT !.h.adds = Append(@, [fn |-> f, status |-> r.status])]

\* collaborators (planner.h, canonical_machine.h, spindle.h, coolant.h,
\* report.h), by their effect on what this file reads
planner_reset(m, p) ==
    [m EXCEPT ![p].q = <<>>, ![p].position = ZeroVector,
              ![m[p].mr].position = ZeroVector]
mp_has_runnable_buffer(m, p) == m[p].q # <<>>
mp_queue_command(m, cb) == [m EXCEPT ![m.mp].q = Append(@, cb)]
sr_request_status_report(m) == [m EXCEPT !.ext.sr_request = TRUE]
spindle_control_sync(m, c) == [m EXCEPT !.ext.spindle = c]
coolant_control_sync(m, c) == [m EXCEPT !.ext.coolant = c]
cm_cycle_start(m) == [m EXCEPT !.ext.cycle = "start"]
cm_cycle_end(m) == [m EXCEPT !.ext.cycle = "end"]
st_request_exec_move(m) == [m EXCEPT !.ext.exec_move = TRUE]
cm_abort_arc(m, c) == [m EXCEPT !.ext.arc_abort = TRUE]
cm_set_g30_position(m) ==
    [m EXCEPT ![m.cm].gmx.g30_position = m[m.cm].gmx.position]
cm_set_distance_mode(m, mode) == [m EXCEPT ![m.cm].gm.distance_mode = mode]
\* cm_straight_traverse that sets the target of the primary machine
cm_straight_traverse_primary(m, target, flags) ==
    [m EXCEPT !.cm1.gm.target = target,
              ![m.mp].q = Append(@, "move")]
\* a traverse of the flagged axes: absolute or incremental target, one
\* move queued in the active planner
cm_straight_traverse(m, target, flags) ==
    LET c == m[m.cm]
        t == [a \in Axes |->
                IF ~flags[a] THEN c.gmx.position[a]
                ELSE IF c.gm.distance_mode = INCREMENTAL_DISTANCE_MODE
                     THEN c.gmx.position[a] + target[a]
                     ELSE target[a]]
    IN [m EXCEPT ![m.cm].gm.target = t,
                 ![m.cm].gmx.position = t,
                 ![m.mp].position = t,
                 ![m.mp].q = Append(@, "move")]
cm_goto_g30_position(m, target, flags) ==
    cm_straight_traverse(m, target, [a \in Axes |-> TRUE])
cm_reset_position_to_absolute_position(m) ==
    [m EXCEPT ![m.cm].gmx.position = m[m.mr].position,
              ![m.cm].gm.target = m[m.mr].position,
              ![m.mp].position = m[m.mr].position]

\* _feedhold_sync_to_planner
_feedhold_sync_to_planner(m) ==
    sr_request_status_report([m EXCEPT !.cm1.hold_state = FEEDHOLD_HOLD_DONE])

\* _feedhold_exit_sync_to_planner that also returns to the primary machine
_feedhold_exit_sync_to_planner_restore(m) ==
    sr_request_status_report(
        [m EXCEPT !.cm1.hold_state = FEEDHOLD_HOLD_EXIT_DONE, !.cm = "cm1"])

\* _feedhold_exit_sync_to_planner
_feedhold_exit_sync_to_planner(m) ==
    sr_request_status_report(
        [m EXCEPT !.cm1.hold_state = FEEDHOLD_HOLD_EXIT_DONE])

\* the first-time code of _feedhold_with_actions, statement by statement:
\* memcpy(&cm2, &cm1), the planner pointer, the reset of the secondary planner
CopyToSecondary(m) ==
    planner_reset([m EXCEPT !.cm2 = [m.cm1 EXCEPT !.mp = "mp2"]], "mp2")

\* SetupSecondary that takes the positions from the target of the primary
\* machine
SetupSecondary_target(m) ==
    [m EXCEPT !.cm2.hold_state = FEEDHOLD_OFF,
              !.cm2.gm.motion_mode = MOTION_MODE_CANCEL_MOTION_MODE,
              !.cm2.gm.absolute_override = ABSOLUTE_OVERRIDE_OFF,
              !.cm2.flush_state = FLUSH_OFF,
              !.cm2.gm.feed_rate = 0,
              !.cm2.gm.target = ZeroVector,
              !.cm2.return_flags = NoFlags,
              !.cm2.gm.target_comp = m.cm1.gm.target_comp,
              !.cm2.gmx.position = m.cm1.gm.target,
              !.mp2.position = m.cm1.gm.target,
              !.mr2.position = m.cm1.gm.target]

\* set parameters in cm, gm and gmx; clear the target and set the positions
\* to the current hold position
SetupSecondary(m) ==
    [m EXCEPT !.cm2.hold_state = FEEDHOLD_OFF,
              !.cm2.gm.motion_mode = MOTION_MODE_CANCEL_MOTION_MODE,
              !.cm2.gm.absolute_override = ABSOLUTE_OVERRIDE_OFF,
              !.cm2.flush_state = FLUSH_OFF,
              !.cm2.gm.feed_rate = 0,
              !.cm2.gm.target = ZeroVector,
              !.cm2.return_flags = NoFlags,
              !.cm2.gm.target_comp = m.cm1.gm.target_comp,
              !.cm2.gmx.position = m.mr1.position,
              !.mp2.position = m.mr1.position,
              !.mr2.position = m.mr1.position]

\* reassign the globals to the secondary CM
SelectSecondary(m) ==
    [m EXCEPT !.cm = "cm2", !.mp = m.cm2.mp, !.mr = m[m.cm2.mp].mr]

\* the optional Z lift
ZLift(m) ==
    IF m[m.cm].feedhold_z_lift # 0
    THEN cm_set_distance_mode(
           cm_straight_traverse(
             cm_set_distance_mode(m, INCREMENTAL_DISTANCE_MODE),
             [a \in Axes |-> IF a = "Z" THEN m[m.cm].feedhold_z_lift ELSE 0],
             [a \in Axes |-> a = "Z"]),
           m.cm1.gm.distance_mode)
    ELSE m

\* the switch to the secondary machine
ContextSwitch(m) == SelectSecondary(SetupSecondary(CopyToSecondary(m)))

HoldEntryActions(m) ==
    mp_queue_command(
      coolant_control_sync(
        spindle_control_sync(
          ZLift(cm_set_g30_position(ContextSwitch(
              [m EXCEPT ![m.cm].hold_state = FEEDHOLD_HOLD_PENDING]))),
          "PAUSE"),
        "PAUSE"),
      "_feedhold_sync_to_planner")

\* _feedhold_with_actions that does not wait for the entry callback
_feedhold_with_actions_nowait(m) ==
    IF m.cm1.hold_state = FEEDHOLD_HOLD_ACTION_START
    THEN [m |-> HoldEntryActions(m), status |-> STAT_EAGAIN]
    ELSE IF m.cm1.hold_state \in {FEEDHOLD_HOLD_PENDING, FEEDHOLD_HOLD_DONE}
    THEN [m |-> [m EXCEPT !.cm1.hold_state = FEEDHOLD_HOLD],
          status |-> STAT_OK]
    ELSE [m |-> m, status |-> STAT_EAGAIN]

\* _feedhold_with_actions
_feedhold_with_actions(m) ==
    IF m.cm1.hold_state = FEEDHOLD_HOLD_ACTION_START
    THEN [m |-> HoldEntryActions(m), status |-> STAT_EAGAIN]
    ELSE IF m.cm1.hold_state = FEEDHOLD_HOLD_PENDING
    THEN [m |-> m, status |-> STAT_EAGAIN]
    ELSE IF m.cm1.hold_state = FEEDHOLD_HOLD_DONE
    THEN [m |-> [m EXCEPT !.cm1.hold_state = FEEDHOLD_HOLD],
          status |-> STAT_OK]
    ELSE [m |-> m, status |-> STAT_EAGAIN]

\* the return move of _feedhold_exit_with_actions
ReturnMove(m) ==
    cm_goto_g30_position(m, m.cm2.gmx.g30_position, m.cm2.return_flags)

\* the first-time code of _feedhold_exit_with_actions: the statements up
\* to mp_queue_command, and the write of the hold state that follows them
HoldExitQueued(m) ==
    mp_queue_command(
       ReturnMove([spindle_control_sync(coolant_control_sync(m, "RESUME"),
                                        "RESUME")
                     EXCEPT !.cm2.return_flags["Z"] = FALSE]),
       "_feedhold_exit_sync_to_planner")

HoldExitPending(m) ==
    [m EXCEPT !.cm1.hold_state = FEEDHOLD_HOLD_EXIT_PENDING]

HoldExitActions(m) == HoldExitPending(HoldExitQueued(m))

\* return to the primary planner
SelectPrimary(m) ==
    [m EXCEPT !.cm = "cm1", !.mp = m.cm1.mp, !.mr = m[m.cm1.mp].mr]

\* AfterFlush that leaves the position and the flush state as they are
AfterFlush_skip(m) == m

\* the block run if a queue flush was performed
AfterFlush(m) ==
    IF m.cm1.flush_state = FLUSH_WAS_RUN
    THEN [cm_reset_position_to_absolute_position(m)
            EXCEPT !.cm1.flush_state = FLUSH_OFF]
    ELSE m

\* the finalisation of _feedhold_exit_with_actions
HoldExitFinalize(m) == AfterFlush(SelectPrimary(m))

\* _feedhold_exit_with_actions that completes without returning to the
\* primary planner
_feedhold_exit_with_actions_norestore(m) ==
    IF m.cm1.hold_state = FEEDHOLD_HOLD
    THEN [m |-> HoldExitActions(m), status |-> STAT_EAGAIN]
    ELSE IF m.cm1.hold_state = FEEDHOLD_HOLD_EXIT_PENDING
    THEN [m |-> m, status |-> STAT_EAGAIN]
    ELSE IF m.cm1.hold_state = FEEDHOLD_HOLD_EXIT_DONE
    THEN [m |-> m, status |-> STAT_OK]
    ELSE [m |-> m, status |-> STAT_EAGAIN]

\* _feedhold_exit_with_actions
_feedhold_exit_with_actions(m) ==
    IF m.cm1.hold_state = FEEDHOLD_HOLD
    THEN [m |-> HoldExitActions(m), status |-> STAT_EAGAIN]
    ELSE IF m.cm1.hold_state = FEEDHOLD_HOLD_EXIT_PENDING
    THEN [m |-> m, status |-> STAT_EAGAIN]
    ELSE IF m.cm1.hold_state = FEEDHOLD_HOLD_EXIT_DONE
    THEN [m |-> HoldExitFinalize(m), status |-> STAT_OK]
    ELSE [m |-> m, status |-> STAT_EAGAIN]

\* _cycle_exit that resumes whatever the primary planner holds
_cycle_exit_resume(m) ==
    [m |-> [st_request_exec_move(cm_cycle_start(m)) EXCEPT
              !.cm1.hold_state = FEEDHOLD_OFF],
     status |-> STAT_OK]

\* _cycle_exit
_cycle_exit(m) ==
    [m |-> [(IF mp_has_runnable_buffer(m, "mp1")
             THEN st_request_exec_move(cm_cycle_start(m))
             ELSE cm_cycle_end(m)) EXCEPT !.cm1.hold_state = FEEDHOLD_OFF],
     status |-> STAT_OK]

\* the action functions that only return STAT_OK: _feedhold_with_no_actions,
\* _feedhold_with_sync, _feedhold_exit_with_no_actions, _program_stop,
\* _program_end, _alarm, _shutdown, _interlock
EmptyActions ==
    {"_feedhold_with_no_actions", "_feedhold_with_sync",
     "_feedhold_exit_with_no_actions", "_program_stop", "_program_end",
     "_alarm", "_shutdown", "_interlock"}

\* the call of an action function of this file through its pointer
CallAction(m, f) ==
    CASE f = "_feedhold_with_actions" -> _feedhold_with_actions(m)
      [] f = "_feedhold_exit_with_actions" -> _feedhold_exit_with_actions(m)
      [] f = "_cycle_exit" -> _cycle_exit(m)
      [] OTHER -> [m |-> m, status |-> STAT_OK]

\* the record of an invocation: the function, its param[], its slot and
\* what it returned
Invoked(m, r) ==
    [m |-> [r.m EXCEPT !.h.calls =
                Append(@, [fn |-> m.op.func[m.op.run],
                           param |-> m.op.param[m.op.run],
                           slot |-> m.op.run,
                           ret |-> r.status])],
     status |-> r.status]

\* run->func(run->param): i is the ordinal of the invocation within the call
Invoke(m, o, i) ==
    Invoked(m, IF m.op.func[m.op.run] \in Stubs
               THEN StubAction(m, o, i, m.op.func[m.op.run],
                               m.op.param[m.op.run])
               ELSE CallAction(m, m.op.func[m.op.run]))

\* the while loop of cmOperation::run_operation: run_loop invokes the action
\* at run, run_status acts on its status, run_next is the loop body after
\* run = run->nx
RECURSIVE run_loop(_, _, _)
RECURSIVE run_status(_, _, _)
RECURSIVE run_next(_, _, _)
run_next(m, o, i) ==
    IF m.op.run = NULL
    \* run->func with run == NULL: the read yields whatever lies at that
    \* address
    THEN IF o.ub = "null"
         THEN [m |-> reset(m), status |-> STAT_OK]
         ELSE [m |-> [m EXCEPT !.fault = TRUE], status |-> FAULT]
    ELSE IF m.op.func[m.op.run] = NULLFUNC
         THEN [m |-> reset(m), status |-> STAT_OK]
         ELSE run_loop(m, o, i + 1)

run_status(r, o, i) ==
    IF r.status = STAT_OK
    THEN run_next([r.m EXCEPT !.op.run = nx(r.m.op.run)], o, i)
    ELSE IF r.status = STAT_EAGAIN
         THEN [m |-> r.m, status |-> STAT_EAGAIN]
         ELSE [m |-> reset(r.m), status |-> r.status]

run_loop(m, o, i) == run_status(Invoke(m, o, i), o, i)

\* mutant: run_operation that starts over from the first slot
run_operation_restart(m, o) ==
    IF m.op.func[m.op.run] = NULLFUNC
    THEN [m |-> m, status |-> STAT_NOOP]
    ELSE run_loop([m EXCEPT !.op.in_operation = TRUE, !.op.run = 1], o, 1)

\* mutant: run_operation that raises in_operation before looking at the slot
run_operation_eager(m, o) ==
    IF m.op.func[m.op.run] = NULLFUNC
    THEN [m |-> [m EXCEPT !.op.in_operation = TRUE], status |-> STAT_NOOP]
    ELSE run_loop([m EXCEPT !.op.in_operation = TRUE], o, 1)

\* cmOperation::run_operation
run_operation(m, o) ==
    IF m.op.func[m.op.run] = NULLFUNC
    THEN [m |-> m, status |-> STAT_NOOP]
    ELSE run_loop([m EXCEPT !.op.in_operation = TRUE], o, 1)

(***************************************************************************)
(* Feedhold requests and their sequencing                                  *)
(***************************************************************************)
\* switch (cm1.hold_type) of _initiate_feedhold
AddEntryAction(m) ==
    IF m.cm1.hold_type \in HoldTypes
    THEN op_add(m, EntryFn(m.cm1.hold_type))
    ELSE m

\* switch (cm1.hold_final) of _initiate_feedhold
AddFinalAction(m) ==
    IF m.cm1.hold_final \in HoldFinals \ {FEEDHOLD_FINAL_CYCLE}
    THEN op_add(m, FinalFn(m.cm1.hold_final))
    ELSE m

\* _initiate_feedhold without the test of the motion state
_initiate_feedhold_anytime(m) ==
    IF m.cm1.hold_state = FEEDHOLD_REQUESTED
    THEN [AddFinalAction(AddEntryAction(m)) EXCEPT
            !.cm1.hold_state = FEEDHOLD_SYNC]
    ELSE m

\* _initiate_feedhold
_initiate_feedhold(m) ==
    IF m.cm1.hold_state = FEEDHOLD_REQUESTED /\ m.cm1.motion_state = MOTION_RUN
    THEN [AddFinalAction(AddEntryAction(m)) EXCEPT
            !.cm1.hold_state = FEEDHOLD_SYNC]
    ELSE IF m.cm2.hold_state = FEEDHOLD_REQUESTED
            /\ m.cm2.motion_state = MOTION_RUN
    THEN [op_add(m, "_feedhold_with_sync") EXCEPT
            !.cm2.hold_state = FEEDHOLD_SYNC]
    ELSE m

\* cm_request_feedhold that leaves the initiation to the next tick
cm_request_feedhold_deferred(m, type, final) ==
    [m EXCEPT ![m.cm].hold_type = type,
              ![m.cm].hold_final = final,
              ![m.cm].hold_state = FEEDHOLD_REQUESTED]

\* cm_request_feedhold
cm_request_feedhold(m, type, final) ==
    _initiate_feedhold([m EXCEPT ![m.cm].hold_type = type,
                                 ![m.cm].hold_final = final,
                                 ![m.cm].hold_state = FEEDHOLD_REQUESTED])

\* cm_request_cycle_start
cm_request_cycle_start(m) ==
    [m EXCEPT ![m.cm].cycle_state = CYCLE_START_REQUESTED]

\* switch (cm1.hold_type) of _initiate_cycle_start
AddExitAction(m) ==
    IF ExitFn(m.cm1.hold_type) # NULLFUNC
    THEN op_add(m, ExitFn(m.cm1.hold_type))
    ELSE m

\* switch (cm1.hold_final) of _initiate_cycle_start
AddExitFinalAction(m) ==
    IF m.cm1.hold_final \in HoldFinals
    THEN op_add(m, FinalFn(m.cm1.hold_final))
    ELSE m

\* _initiate_cycle_start without the direct cycle start at FEEDHOLD_OFF
_initiate_cycle_start_nodirect(m, o) ==
    run_operation(IF m.cm1.hold_state = FEEDHOLD_HOLD
                  THEN AddExitFinalAction(AddExitAction(m))
                  ELSE m, o).m

\* _initiate_cycle_start
_initiate_cycle_start(m, o) ==
    IF m.cm1.hold_state = FEEDHOLD_OFF
    THEN st_request_exec_move(cm_cycle_start(m))
    ELSE run_operation(IF m.cm1.hold_state = FEEDHOLD_HOLD
                       THEN AddExitFinalAction(AddExitAction(m))
                       ELSE m, o).m

\* cm_queue_flush
cm_queue_flush(m, c) ==
    [planner_reset(cm_abort_arc(m, c), m[c].mp) EXCEPT
        ![c].flush_state = FLUSH_WAS_RUN]

\* _initiate_queue_flush
_initiate_queue_flush(m) == cm_queue_flush(m, m.cm)

\* cm_request_queue_flush
cm_request_queue_flush(m) ==
    [m EXCEPT ![m.cm].flush_state = FLUSH_REQUESTED]

\* the four statements of cm_operation_sequencing_callback
SequenceFeedhold(m) ==
    IF m.cm1.hold_state = FEEDHOLD_REQUESTED THEN _initiate_feedhold(m) ELSE m

SequenceFlush(m) ==
    IF m.cm1.flush_state = FLUSH_REQUESTED THEN _initiate_queue_flush(m) ELSE m

SequenceCycleStart(m, o) ==
    IF m.cm1.cycle_state = CYCLE_START_REQUESTED
    THEN _initiate_cycle_start(m, o) ELSE m

SequenceRun(m, o) ==
    IF m.fault THEN [m |-> m, status |-> FAULT] ELSE run_operation(m, o)

\* cm_operation_sequencing_callback that looks at the cycle start first
cm_operation_sequencing_callback_cyclefirst(m, o) ==
    SequenceRun(SequenceFlush(SequenceFeedhold(SequenceCycleStart(m, o))), o)

\* cm_operation_sequencing_callback
cm_operation_sequencing_callback(m, o) ==
    SequenceRun(SequenceCycleStart(SequenceFlush(SequenceFeedhold(m)), o), o)

(***************************************************************************)
(* The state of the program as one record, and back                        *)
(***************************************************************************)
Machine ==
    [op |-> op, h |-> h, fault |-> fault, cm1 |-> cm1, cm2 |-> cm2, cm |-> cm,
     mp |-> mp, mr |-> mr, mp1 |-> mp1, mp2 |-> mp2, mr1 |-> mr1, mr2 |-> mr2,
     ext |-> ext]

Install(m) ==
    /\ op' = m.op
    /\ h' = m.h
    /\ fault' = m.fault
    /\ cm1' = m.cm1
    /\ cm2' = m.cm2
    /\ cm' = m.cm
    /\ mp' = m.mp
    /\ mr' = m.mr
    /\ mp1' = m.mp1
    /\ mp2' = m.mp2
    /\ mr1' = m.mr1
    /\ mr2' = m.mr2
    /\ ext' = m.ext

\* the actions queued from the run pointer on
RECURSIVE Remaining(_, _)
Remaining(o, i) ==
    IF i = NULL \/ o.func[i] = NULLFUNC THEN 0 ELSE 1 + Remaining(o, nx(i))

\* what the actions invoked by one run_operation call do: with n actions
\* left, either k < n of them return STAT_OK and the next returns t, or all
\* n return STAT_OK; ub is what the read through a NULL run pointer yields
Oracles(n, full) ==
    {o \in [k : 0..n, t : {STAT_EAGAIN} \cup ErrorCodes,
            nest : {0, 1}, ub : {"null", "wild"}] :
        /\ o.k = n => o.t = STAT_EAGAIN
        /\ ~(o.k = n /\ full) => o.ub = "null"}

(***************************************************************************)
(* Runner harness: callers of add_action and run_operation                 *)
(***************************************************************************)
\* cm_operation_init; op is a zero-initialised global
InitOp ==
    [func |-> [i \in Slots |-> NULLFUNC],
     param |-> [i \in Slots |-> ZeroParam],
     add |-> 1, run |-> 1, in_operation |-> FALSE]

InitH ==
    [queued |-> <<>>,     \* <<fn, param argument>> of the accepted add_action calls
     done |-> <<>>,       \* functions that returned STAT_OK, in order
     calls |-> <<>>,      \* invocations made by the latest run_operation call
                          \* of this operation
     phase |-> "adding",  \* adding / running / finished, from the statuses returned
     last |-> [call |-> "init", status |-> "none"],
     before |-> [call |-> "init", status |-> "none"],  \* the call before last
     over |-> FALSE,      \* an add_action of this operation found the list full
     \* an add_action made from inside an action: its status, its effect
     nested |-> [status |-> "none", changed |-> FALSE],
     mode |-> "full",     \* full: operations of any length, no vectors passed;
                          \* params: short operations, vectors passed
     adds |-> <<>>,       \* add_action calls made by the latest handler
     terms |-> 0,         \* termination actions invoked since the last initiation
     nreq |-> 0,          \* cm_request_feedhold calls made
     \* ticks that ran the first-time code of _feedhold_with_actions since
     \* cm1.hold_state was last FEEDHOLD_OFF, counted up to 2
     switches |-> 0,
     \* the latest cm_request_feedhold call: its arguments, the active
     \* machine and its hold and motion state when the call was made
     req |-> [type |-> "none", final |-> "none", cm |-> "none",
              hold_state |-> "none", motion_state |-> "none"]]

\* the two canonical machines, their planners and runtimes, before any hold:
\* the primary is part way through a move, the secondary has never been used
InitCm1(lift) ==
    [hold_state |-> FEEDHOLD_OFF,
     hold_type |-> FEEDHOLD_TYPE_ACTIONS,
     hold_final |-> FEEDHOLD_FINAL_CYCLE,
     flush_state |-> FLUSH_OFF,
     cycle_state |-> CYCLE_START_OFF,
     motion_state |-> MOTION_STOP,
     mp |-> "mp1",
     gm |-> [target |-> [a \in Axes |-> IF a = "X" THEN 4 ELSE 2],
             target_comp |-> [a \in Axes |-> IF a = "X" THEN 1 ELSE 0],
             distance_mode |-> "ABSOLUTE_DISTANCE_MODE",
             feed_rate |-> 100,
             motion_mode |-> "MOTION_MODE_STRAIGHT_FEED",
             absolute_override |-> "ABSOLUTE_OVERRIDE_ON"],
     gmx |-> [position |-> [a \in Axes |-> IF a = "X" THEN 4 ELSE 2],
              g30_position |-> ZeroVector],
     return_flags |-> [a \in Axes |-> TRUE],
     feedhold_z_lift |-> lift]

InitCm2 ==
    [hold_state |-> FEEDHOLD_OFF,
     hold_type |-> FEEDHOLD_TYPE_ACTIONS,
     hold_final |-> FEEDHOLD_FINAL_CYCLE,
     flush_state |-> FLUSH_OFF,
     cycle_state |-> CYCLE_START_OFF,
     motion_state |-> MOTION_STOP,
     mp |-> "mp2",
     gm |-> [target |-> ZeroVector,
             target_comp |-> ZeroVector,
             distance_mode |-> "ABSOLUTE_DISTANCE_MODE",
             feed_rate |-> 0,
             motion_mode |-> MOTION_MODE_CANCEL_MOTION_MODE,
             absolute_override |-> ABSOLUTE_OVERRIDE_OFF],
     gmx |-> [position |-> ZeroVector, g30_position |-> ZeroVector],
     return_flags |-> NoFlags,
     feedhold_z_lift |-> 0]

InitExt ==
    [sr_request |-> FALSE, spindle |-> "none", coolant |-> "none",
     cycle |-> "none", exec_move |-> FALSE, arc_abort |-> FALSE]

InitMachines(lift, moves) ==
    /\ cm1 = InitCm1(lift)
    /\ cm2 = InitCm2
    /\ cm = "cm1"
    /\ mp = "mp1"
    /\ mr = "mr1"
    /\ mp1 = [q |-> moves,
              position |-> [a \in Axes |-> IF a = "X" THEN 4 ELSE 2],
              mr |-> "mr1"]
    /\ mp2 = [q |-> <<>>, position |-> ZeroVector, mr |-> "mr2"]
    /\ mr1 = [position |-> [a \in Axes |-> IF a = "X" THEN 3 ELSE 2]]
    /\ mr2 = [position |-> ZeroVector]
    /\ ext = InitExt

InitRunner ==
    /\ op = InitOp
    /\ h = InitH
    /\ fault = FALSE
    /\ InitMachines(0, <<>>)

InitParams ==
    /\ op = InitOp
    /\ h = [InitH EXCEPT !.mode = "params"]
    /\ fault = FALSE
    /\ InitMachines(0, <<>>)

\* a caller adds an action
AddAction ==
    /\ ~fault
    /\ \E p \in {nullptr} \cup ParamVectors :
         /\ p # nullptr => h.mode = "params"
         /\ h.mode = "params" /\ h.phase = "adding" => Len(h.queued) < MaxParamLen
         /\ LET fresh == h.phase = "finished"
                q == IF fresh THEN <<>> ELSE h.queued
                m0 == [Machine EXCEPT !.h.queued = q,
                                      !.h.done = IF fresh THEN <<>> ELSE @,
                                      !.h.calls = IF fresh THEN <<>> ELSE @,
                                      !.h.over = IF fresh THEN FALSE ELSE @,
                                      !.h.phase = IF fresh THEN "adding" ELSE @]
                f == StubName[Len(q) + 1]
                r == add_action(m0, f, p)
            IN Install([r.m EXCEPT
                 !.h.queued = IF r.status = STAT_OK
                              THEN Append(@, [fn |-> f, param |-> p])
                              ELSE @,
                 !.h.over = @ \/ r.status = STAT_INPUT_EXCEEDS_MAX_LENGTH,
                 !.h.before = h.last,
                 !.h.last = [call |-> "add", status |-> r.status]])

PhaseAfter(ph, status) ==
    CASE status = STAT_EAGAIN -> "running"
      [] status = STAT_NOOP -> ph
      [] OTHER -> "finished"

OkCalls(calls) == SelectSeq(calls, LAMBDA c : c.ret = STAT_OK)

\* a caller runs the operation
RunOperation ==
    /\ ~fault
    /\ \E o \in Oracles(Remaining(op, op.run), op.add = NULL) :
         LET m0 == [Machine EXCEPT !.h.calls = <<>>,
                                   !.h.nested = [status |-> "none",
                                                 changed |-> FALSE]]
             r == run_operation(m0, o)
             oks == OkCalls(r.m.h.calls)
         IN Install([r.m EXCEPT
               !.h.done = @ \o [i \in 1..Len(oks) |-> oks[i].fn],
               !.h.phase = PhaseAfter(@, r.status),
               !.h.before = h.last,
               !.h.last = [call |-> "run", status |-> r.status]])

NextRunner == AddAction \/ RunOperation

SpecRunner == InitRunner /\ [][NextRunner]_vars

SpecParams == InitParams /\ [][NextRunner]_vars

(***************************************************************************)
(* The controller: requests, the main loop tick, the execution engine      *)
(***************************************************************************)
Init ==
    /\ op = InitOp
    /\ h = InitH
    /\ fault = FALSE
    /\ \E lift \in {0, 1} : InitMachines(lift, <<"move">>)

\* the handler starts with an empty record of the calls it makes, in the
\* runner and in the collaborators
Enter == [Machine EXCEPT !.h.calls = <<>>, !.h.adds = <<>>,
                         !.h.req = InitH.req, !.ext = InitExt]

Min(a, b) == IF a < b THEN a ELSE b
FinalCalls(calls) == Len(SelectSeq(calls, LAMBDA c : c.fn \in FinalFns))
\* what the read through a NULL run pointer may yield, where it can happen
UbOracles ==
    {[k |-> 0, t |-> STAT_EAGAIN, nest |-> 0, ub |-> u] :
        u \in IF op.add = NULL THEN {"null", "wild"} ELSE {"null"}}

\* the final states the n+1-th request may ask for
RequestFinals(n) ==
    IF n = 0 THEN HoldFinals
    ELSE {FinalOrder[i] : i \in 1..Min(MaxLaterFinals, Len(FinalOrder))}

\* the record of a cm_request_feedhold call that left the program in m
Requested(m, type, final) ==
    [m EXCEPT
       !.h.nreq = @ + 1,
       !.h.req = [type |-> type, final |-> final, cm |-> cm,
                  hold_state |-> Machine[cm].hold_state,
                  motion_state |-> Machine[cm].motion_state],
       !.h.terms = IF m.cm1.hold_state = FEEDHOLD_SYNC
                      /\ cm1.hold_state # FEEDHOLD_SYNC
                   THEN 0 ELSE @,
       !.h.last = [call |-> "cm_request_feedhold", status |-> "none"]]

\* ! : cm_request_feedhold(type, final)
RequestFeedhold ==
    /\ ~fault
    /\ h.nreq < MaxFeedholdRequests
    /\ \E type \in HoldTypes, final \in RequestFinals(h.nreq) :
         Install(Requested(cm_request_feedhold(Enter, type, final),
                           type, final))

\* ~ : cm_request_cycle_start()
RequestCycleStart ==
    /\ ~fault
    /\ Install([cm_request_cycle_start(Enter) EXCEPT
          !.h.last = [call |-> "cm_request_cycle_start", status |-> "none"]])

\* % : cm_request_queue_flush()
RequestQueueFlush ==
    /\ ~fault
    /\ Install([cm_request_queue_flush(Enter) EXCEPT
          !.h.last = [call |-> "cm_request_queue_flush", status |-> "none"]])

\* the record of a tick that left the program in m
Ticked(m) ==
    [m EXCEPT
       !.h.terms = Min(2, (IF cm1.hold_state = FEEDHOLD_REQUESTED
                              /\ cm1.motion_state = MOTION_RUN
                           THEN 0 ELSE @) + FinalCalls(m.h.calls)),
       !.h.switches = IF m.cm1.hold_state = FEEDHOLD_OFF THEN 0
                      ELSE Min(2, @ + (IF m.ext.spindle = "PAUSE"
                                       THEN 1 ELSE 0)),
       !.h.last = [call |-> "tick", status |-> "none"]]

\* one pass of the main loop: cm_operation_sequencing_callback()
Tick ==
    /\ ~fault
    /\ \E o \in UbOracles :
         Install(Ticked(cm_operation_sequencing_callback(Enter, o).m))

Engine(m) == [m EXCEPT !.h.last = [call |-> "engine", status |-> "none"]]

\* the execution engine runs the moves of the active planner: it starts the
\* motion of the active machine when a move is queued and may stop it
HasMove(q) == \E i \in 1..Len(q) : q[i] = "move"

SetMotion ==
    /\ ~fault
    /\ \E s \in {MOTION_RUN, MOTION_STOP} :
         /\ Machine[cm].motion_state # s
         /\ s = MOTION_RUN => HasMove(Machine[mp].q)
         /\ Install(Engine([Enter EXCEPT ![cm].motion_state = s]))

\* the execution engine has decelerated the primary machine to the hold point
HoldPoint ==
    /\ ~fault
    /\ cm1.hold_state = FEEDHOLD_SYNC
    /\ Install(Engine([Enter EXCEPT
                         !.cm1.hold_state = FEEDHOLD_HOLD_ACTION_START]))

\* the execution engine takes the next buffer of the active planner: a move,
\* or a command whose callback it runs; with no move left the motion of the
\* active machine has stopped
ExecBuffer ==
    /\ ~fault
    /\ Machine[mp].q # <<>>
    /\ mp = "mp1" => cm1.hold_state \in {FEEDHOLD_OFF, FEEDHOLD_REQUESTED,
                                         FEEDHOLD_SYNC}
    /\ LET b == Head(Machine[mp].q)
           m1 == [Enter EXCEPT ![mp].q = Tail(@)]
           m2 == IF HasMove(m1[mp].q) THEN m1
                 ELSE [m1 EXCEPT ![cm].motion_state = MOTION_STOP]
           m3 == CASE b = "_feedhold_sync_to_planner" ->
                        _feedhold_sync_to_planner(m2)
                   [] b = "_feedhold_exit_sync_to_planner" ->
                        _feedhold_exit_sync_to_planner(m2)
                   [] OTHER -> m2
       IN Install(Engine(m3))

Next ==
    \/ RequestFeedhold
    \/ RequestCycleStart
    \/ RequestQueueFlush
    \/ Tick
    \/ SetMotion
    \/ HoldPoint
    \/ ExecBuffer

Spec == Init /\ [][Next]_vars

(***************************************************************************)
(* Properties of the operation runner                                      *)
(***************************************************************************)
Last(q) == q[Len(q)]
QueuedFns == [i \in 1..Len(h.queued) |-> h.queued[i].fn]
\* the step is a run_operation call, respectively an add_action call
RunStep == h'.last.call = "run" /\ vars' # vars
AddStep == h'.last.call = "add" /\ vars' # vars
Idle(o) ==
    /\ ~o.in_operation
    /\ o.add = 1
    /\ o.run = 1
    /\ \A i \in Slots : o.func[i] = NULLFUNC

\* C1: 1 to 12 actions added to an idle runner are invoked in enqueue
\* order, each completes exactly once, and the run_operation call in which
\* the last one completes returns STAT_OK
C1_RunsAllInOrder ==
    /\ Len(h.done) <= Len(h.queued)
    /\ \A i \in 1..Len(h.done) : h.done[i] = h.queued[i].fn
    /\ (/\ h.last.call = "run"
        /\ h.calls # <<>>
        /\ Last(h.calls).ret = STAT_OK
        /\ h.done = QueuedFns) => h.last.status = STAT_OK

\* C2: after STAT_EAGAIN the run pointer still is on the action that
\* returned it; the next run_operation call invokes that action first, with
\* the same param[], invokes no action that has completed, and invokes a
\* later action only after the one before it has returned STAT_OK
C2_ContinueInv ==
    h.phase = "running" =>
        /\ h.calls # <<>>
        /\ Last(h.calls).ret = STAT_EAGAIN
        /\ op.run = Last(h.calls).slot
        /\ op.func[op.run] = Last(h.calls).fn

C2_ContinueAct ==
    (h.phase = "running" /\ RunStep) =>
        /\ h'.calls # <<>>
        /\ h'.calls[1].fn = Last(h.calls).fn
        /\ h'.calls[1].slot = Last(h.calls).slot
        /\ h'.calls[1].param = Last(h.calls).param
        /\ \A j \in 1..Len(h'.calls) :
             /\ \A d \in 1..Len(h.done) : h'.calls[j].fn # h.done[d]
             /\ j > 1 => /\ h'.calls[j - 1].ret = STAT_OK
                         /\ h'.calls[j].slot = h'.calls[j - 1].slot + 1

C2_ContinueReinvokes == [](C2_ContinueInv) /\ [][C2_ContinueAct]_vars

C2_Witness ==
    /\ h.phase = "running"
    /\ h.before = [call |-> "run", status |-> STAT_EAGAIN]
    /\ h.last = [call |-> "run", status |-> STAT_EAGAIN]
    /\ Len(h.done) >= 1
    /\ Len(h.queued) > Len(h.done) + 1
    /\ Len(h.calls) = 1
    /\ h.calls[1].param # ZeroParam

\* C3: when an action returns an error, run_operation returns that error,
\* the runner is idle with every slot empty, the actions behind the failing
\* one are never invoked, the next run_operation returns STAT_NOOP and the
\* next add_action is accepted
Failed == h.last.call = "run" /\ h.last.status \in ErrorCodes

C3_FailInv ==
    (h.last.call = "run" /\ h.calls # <<>> /\ Last(h.calls).ret \in ErrorCodes) =>
        /\ h.last.status = Last(h.calls).ret
        /\ Idle(op)
        /\ \A j \in 1..Len(h.calls) : h.calls[j].slot <= Last(h.calls).slot

C3_FailAct ==
    /\ (Failed /\ RunStep) => h'.last.status = STAT_NOOP /\ h'.calls = <<>>
    /\ (Failed /\ AddStep) => h'.last.status = STAT_OK /\ op'.func[1] # NULLFUNC

C3_FailureResets == [](C3_FailInv) /\ [][C3_FailAct]_vars

C3_Witness ==
    /\ Failed
    /\ Len(h.done) >= 1
    /\ Len(h.queued) > Len(h.done) + 1

\* C4: add_action while an operation is running, also from inside an
\* action, returns STAT_COMMAND_NOT_ACCEPTED and changes nothing in the runner
C4_RejectInv ==
    /\ h.nested.status \in {"none", STAT_COMMAND_NOT_ACCEPTED}
    /\ ~h.nested.changed

C4_RejectAct ==
    (h.phase = "running" /\ AddStep) =>
        /\ h'.last.status = STAT_COMMAND_NOT_ACCEPTED
        /\ op' = op

C4_RejectedWhileRunning == [](C4_RejectInv) /\ [][C4_RejectAct]_vars

C4_Witness ==
    /\ h.phase = "running"
    /\ h.last = [call |-> "add", status |-> STAT_COMMAND_NOT_ACCEPTED]
    /\ h.nested.status = STAT_COMMAND_NOT_ACCEPTED
    /\ \E i \in Slots : op.param[i] # ZeroParam

\* C5: with 12 actions queued and no operation running, add_action returns
\* STAT_INPUT_EXCEEDS_MAX_LENGTH and changes nothing, and the 12 actions are
\* executed in the order they were queued
C5_FullInv ==
    h.over =>
        /\ Len(h.queued) = ACTION_MAX
        /\ Len(h.done) <= ACTION_MAX
        /\ \A i \in 1..Len(h.done) : h.done[i] = h.queued[i].fn
        /\ \A j \in 1..Len(h.calls) : h.calls[j].fn = h.queued[h.calls[j].slot].fn
        /\ h.phase # "finished" =>
             \A i \in (Len(h.done) + 1)..ACTION_MAX : op.func[i] = h.queued[i].fn

C5_FullAct ==
    (Len(h.queued) = ACTION_MAX /\ h.phase = "adding" /\ AddStep) =>
        /\ h'.last.status = STAT_INPUT_EXCEEDS_MAX_LENGTH
        /\ op' = op
        /\ h'.queued = h.queued

C5_FullListRejects == [](C5_FullInv) /\ [][C5_FullAct]_vars

C5_Witness ==
    /\ h.over
    /\ Len(h.done) = ACTION_MAX

\* C6: an action added without parameters is invoked with an all-zero
\* param[], an action added with parameters with a copy of them
C6_ParamsAsAdded ==
    \A j \in 1..Len(h.calls) :
        /\ h.calls[j].slot <= Len(h.queued)
        /\ LET a == h.queued[h.calls[j].slot].param
           IN h.calls[j].param = IF a = nullptr THEN ZeroParam ELSE a

\* C7: run_operation with nothing queued returns STAT_NOOP, invokes no
\* action and leaves the runner as it was, so that the next add_action is
\* accepted
NothingQueued ==
    \/ h.phase = "adding" /\ h.queued = <<>>
    \/ h.phase = "finished" /\ ~fault

C7_EmptyAct ==
    /\ (NothingQueued /\ RunStep) =>
          /\ h'.last.status = STAT_NOOP
          /\ h'.calls = <<>>
          /\ op' = op
          /\ ~op'.in_operation
    /\ (h.last = [call |-> "run", status |-> STAT_NOOP] /\ AddStep) =>
          h'.last.status = STAT_OK

C7_EmptyRunIsNoop == [][C7_EmptyAct]_vars

C7_Witness ==
    /\ h.before = [call |-> "run", status |-> STAT_NOOP]
    /\ h.last = [call |-> "add", status |-> STAT_OK]
    /\ op.func[1] # NULLFUNC

(***************************************************************************)
(* Claims about the feedhold requests, checked under Spec                  *)
(***************************************************************************)
RequestStep == h'.last.call = "cm_request_feedhold"
TickStep == h'.last.call = "tick"
EntryAdds(adds) == SelectSeq(adds, LAMBDA a : a.fn \in EntryFns)
FinalAdds(adds) == SelectSeq(adds, LAMBDA a : a.fn \in FinalFns)

\* C8: a feedhold requested on the primary machine while its motion is not
\* running leaves its hold state at FEEDHOLD_REQUESTED and queues no action;
\* a sequencing tick made while the motion is still not running leaves the
\* state at FEEDHOLD_REQUESTED and queues nothing, and the first tick made with
\* the motion running promotes the request to FEEDHOLD_SYNC.
C8_StationaryAct ==
    /\ (RequestStep /\ cm = "cm1" /\ cm1.motion_state # MOTION_RUN) =>
          /\ cm1'.hold_state = FEEDHOLD_REQUESTED
          /\ h'.adds = <<>>
          /\ op' = op
    /\ (TickStep /\ cm1.hold_state = FEEDHOLD_REQUESTED
                 /\ cm1.motion_state # MOTION_RUN) =>
          /\ cm1'.hold_state = FEEDHOLD_REQUESTED
          /\ h'.adds = <<>>
    /\ (TickStep /\ cm1.hold_state = FEEDHOLD_REQUESTED
                 /\ cm1.motion_state = MOTION_RUN) =>
          cm1'.hold_state = FEEDHOLD_SYNC

C8_StationaryRequestWaits == [][C8_StationaryAct]_vars

\* a tick has run after a request made on the stationary primary machine,
\* which is still only requested
C8_Witness ==
    /\ h.last.call = "tick"
    /\ cm = "cm1"
    /\ cm1.hold_state = FEEDHOLD_REQUESTED
    /\ cm1.motion_state = MOTION_STOP
    /\ h.nreq > 0

\* C9: cm_request_feedhold(type, final) called while the primary machine is
\* active, its hold state FEEDHOLD_OFF and its motion running initiates the
\* hold before it returns: the hold state is FEEDHOLD_SYNC, hold_type and
\* hold_final are the arguments, and exactly one entry action, the one of the
\* type, has been added to the operation and accepted.
C9_Case(r) ==
    /\ r.cm = "cm1"
    /\ r.hold_state = FEEDHOLD_OFF
    /\ r.motion_state = MOTION_RUN

C9_ImmediateInv ==
    (h.last.call = "cm_request_feedhold" /\ C9_Case(h.req)) =>
        /\ cm1.hold_state = FEEDHOLD_SYNC
        /\ cm1.hold_type = h.req.type
        /\ cm1.hold_final = h.req.final
        /\ EntryAdds(h.adds) =
              <<[fn |-> EntryFn(h.req.type), status |-> STAT_OK]>>
        /\ \E i \in Slots : /\ op.func[i] = EntryFn(h.req.type)
                            /\ \A j \in Slots : j > i =>
                                  op.func[j] \notin EntryFns

C10_Act ==
    (/\ cm1.hold_state # FEEDHOLD_SYNC
     /\ cm1'.hold_state = FEEDHOLD_SYNC
     /\ cm1'.hold_type = FEEDHOLD_TYPE_ACTIONS) => FinalAdds(h'.adds) = <<>>

C10_Inv ==
    cm1.hold_type = FEEDHOLD_TYPE_ACTIONS =>
        /\ h.terms <= 1
        /\ \A i \in 1..Len(h.calls) :
              h.calls[i].fn \in FinalFns =>
                 /\ i > 1
                 /\ h.calls[i - 1].fn = "_feedhold_exit_with_actions"
                 /\ h.calls[i - 1].ret = STAT_OK

C10_TerminationAtExitOnly == [](C10_Inv) /\ [][C10_Act]_vars

(***************************************************************************)
(* Claims about the hold entry and exit actions, checked under Spec        *)
(***************************************************************************)
CallsOf(calls, f) == SelectSeq(calls, LAMBDA c : c.fn = f)
SecondaryActive(m) == m.cm = "cm2" /\ m.mp = "mp2" /\ m.mr = "mr2"
PrimaryActive(m) == m.cm = "cm1" /\ m.mp = "mp1" /\ m.mr = "mr1"

\* C11: _feedhold_with_actions called with cm1.hold_state at
\* FEEDHOLD_HOLD_ACTION_START switches to the secondary machine, leaves
\* cm1.hold_state at FEEDHOLD_HOLD_PENDING and returns STAT_EAGAIN; called at
\* FEEDHOLD_HOLD_PENDING it returns STAT_EAGAIN and changes nothing; called at
\* FEEDHOLD_HOLD_DONE it sets FEEDHOLD_HOLD and returns STAT_OK.  The tick
\* that finds the action at the run pointer makes these calls.
C11_Then(m, r) ==
    /\ m.cm1.hold_state = FEEDHOLD_HOLD_ACTION_START =>
          /\ r.status = STAT_EAGAIN
          /\ r.m.cm1.hold_state = FEEDHOLD_HOLD_PENDING
          /\ SecondaryActive(r.m)
          /\ r.m.mp2.q # <<>>
          /\ Last(r.m.mp2.q) = "_feedhold_sync_to_planner"
    /\ m.cm1.hold_state = FEEDHOLD_HOLD_PENDING =>
          r = [m |-> m, status |-> STAT_EAGAIN]
    /\ m.cm1.hold_state = FEEDHOLD_HOLD_DONE =>
          /\ r.status = STAT_OK
          /\ r.m = [m EXCEPT !.cm1.hold_state = FEEDHOLD_HOLD]

C11_EntryInv == C11_Then(Machine, _feedhold_with_actions(Machine))

EntryAtRun == /\ op.func[op.run] = "_feedhold_with_actions"
              /\ cm1.flush_state # FLUSH_REQUESTED

C11_EntryAct ==
    /\ (TickStep /\ EntryAtRun
                 /\ cm1.hold_state = FEEDHOLD_HOLD_ACTION_START) =>
          /\ cm1'.hold_state = FEEDHOLD_HOLD_PENDING
          /\ cm' = "cm2"
          /\ h'.calls # <<>>
          /\ \A i \in 1..Len(h'.calls) :
                h'.calls[i] = [fn |-> "_feedhold_with_actions",
                               param |-> op.param[op.run],
                               slot |-> op.run, ret |-> STAT_EAGAIN]
    /\ (TickStep /\ EntryAtRun /\ cm1.hold_state = FEEDHOLD_HOLD_PENDING) =>
          /\ cm1' = cm1 /\ cm2' = cm2 /\ cm' = cm /\ op' = op
          /\ mp1' = mp1 /\ mp2' = mp2
    /\ (TickStep /\ EntryAtRun /\ cm1.hold_state = FEEDHOLD_HOLD_DONE) =>
          /\ h'.calls # <<>>
          /\ h'.calls[1].fn = "_feedhold_with_actions"
          /\ h'.calls[1].ret = STAT_OK

C11_EntryActionSteps == [](C11_EntryInv) /\ [][C11_EntryAct]_vars

\* the tick has run the first-time code of the entry action
C11_Witness ==
    /\ h.last.call = "tick"
    /\ CallsOf(h.calls, "_feedhold_with_actions") # <<>>
    /\ cm1.hold_state = FEEDHOLD_HOLD_PENDING
    /\ SecondaryActive(Machine)
    /\ mp2.q # <<>>

\* C12: right after the switch to the secondary machine cm, mp and mr select
\* the secondary instances; cm2 has hold state and flush state off, motion
\* mode cancelled, absolute override off, feed rate 0, target and return flags
\* zero, the target_comp of cm1; cm2.gmx.position, mp2.position and
\* mr2.position equal mr1.position as it was at the switch; mp2 is empty.
\* What the rest of the entry action leaves alone is still so after the tick.
C12_Settings(m, n) ==
    /\ SecondaryActive(n)
    /\ n.cm2.mp = "mp2"
    /\ n.cm2.hold_state = FEEDHOLD_OFF
    /\ n.cm2.flush_state = FLUSH_OFF
    /\ n.cm2.gm.motion_mode = MOTION_MODE_CANCEL_MOTION_MODE
    /\ n.cm2.gm.absolute_override = ABSOLUTE_OVERRIDE_OFF
    /\ n.cm2.gm.feed_rate = 0
    /\ n.cm2.return_flags = NoFlags
    /\ n.cm2.gm.target_comp = m.cm1.gm.target_comp
    /\ n.mr2.position = m.mr1.position

C12_Positions(m, n) ==
    /\ n.cm2.gm.target = ZeroVector
    /\ n.cm2.gmx.position = m.mr1.position
    /\ n.mp2.position = m.mr1.position

C12_SwitchInv ==
    cm1.hold_state = FEEDHOLD_HOLD_ACTION_START =>
       LET n == ContextSwitch([Machine EXCEPT
                                 ![cm].hold_state = FEEDHOLD_HOLD_PENDING])
       IN /\ C12_Settings(Machine, n)
          /\ C12_Positions(Machine, n)
          /\ n.mp2.q = <<>>
          /\ n.cm1 = [cm1 EXCEPT !.hold_state = FEEDHOLD_HOLD_PENDING]
          /\ n.mp1 = mp1 /\ n.mr1 = mr1

C12_SwitchAct ==
    (TickStep /\ EntryAtRun /\ cm1.hold_state = FEEDHOLD_HOLD_ACTION_START) =>
       /\ C12_Settings(Machine, [cm |-> cm', mp |-> mp', mr |-> mr',
                                 cm2 |-> cm2', mr2 |-> mr2'])
       /\ cm1.feedhold_z_lift = 0 =>
             /\ C12_Positions(Machine, [cm2 |-> cm2', mp2 |-> mp2'])
             /\ mp2'.q = <<"_feedhold_sync_to_planner">>

C12_ContextSwitch == [](C12_SwitchInv) /\ [][C12_SwitchAct]_vars

\* the tick has switched to the secondary machine: the runtime position of
\* the primary machine, which differs from its target, is the position of the
\* secondary machine
C12_Witness ==
    /\ h.last.call = "tick"
    /\ CallsOf(h.calls, "_feedhold_with_actions") # <<>>
    /\ cm1.hold_state = FEEDHOLD_HOLD_PENDING
    /\ SecondaryActive(Machine)
    /\ cm2.gmx.position = mr1.position
    /\ mr2.position = mr1.position
    /\ mr1.position # cm1.gm.target
    /\ cm2.gm.target_comp = cm1.gm.target_comp
    /\ cm2.gm.target_comp # ZeroVector

\* C13: the tick that follows a cm_request_cycle_start made with
\* cm1.hold_state at FEEDHOLD_HOLD adds the exit action of the hold type and
\* then the termination action of the hold final, both accepted, and runs the
\* operation: the exit action is invoked in that tick.  This is so whichever
\* machine was active at the request.
C13_Act ==
    (TickStep /\ h.last.call = "cm_request_cycle_start"
              /\ cm1.hold_state = FEEDHOLD_HOLD
              /\ cm1.flush_state # FLUSH_REQUESTED) =>
       /\ h'.adds = <<[fn |-> ExitFn(cm1.hold_type), status |-> STAT_OK],
                      [fn |-> FinalFn(cm1.hold_final), status |-> STAT_OK]>>
       /\ CallsOf(h'.calls, ExitFn(cm1.hold_type)) # <<>>

C13_CycleStartQueuesExit == [][C13_Act]_vars

\* C14: _feedhold_exit_with_actions called with cm1.hold_state at
\* FEEDHOLD_HOLD requests coolant resume and spindle resume, queues the return
\* move and behind it _feedhold_exit_sync_to_planner in the active planner,
\* sets FEEDHOLD_HOLD_EXIT_PENDING and returns STAT_EAGAIN; called at
\* FEEDHOLD_HOLD_EXIT_PENDING it returns STAT_EAGAIN and changes nothing;
\* called at FEEDHOLD_HOLD_EXIT_DONE it makes cm, mp and mr select the primary
\* instances and returns STAT_OK.
C14_Then(m, r) ==
    /\ m.cm1.hold_state = FEEDHOLD_HOLD =>
          /\ r.status = STAT_EAGAIN
          /\ r.m.ext.coolant = "RESUME"
          /\ r.m.ext.spindle = "RESUME"
          /\ r.m[m.mp].q =
                m[m.mp].q \o <<"move", "_feedhold_exit_sync_to_planner">>
          /\ r.m.cm1.hold_state = FEEDHOLD_HOLD_EXIT_PENDING
          /\ r.m.cm = m.cm
    /\ m.cm1.hold_state = FEEDHOLD_HOLD_EXIT_PENDING =>
          r = [m |-> m, status |-> STAT_EAGAIN]
    /\ m.cm1.hold_state = FEEDHOLD_HOLD_EXIT_DONE =>
          /\ r.status = STAT_OK
          /\ PrimaryActive(r.m)
          /\ r.m.cm1.hold_state = FEEDHOLD_HOLD_EXIT_DONE

C14_ExitInv == C14_Then(Machine, _feedhold_exit_with_actions(Machine))

\* the tick initiates the exit of a hold with actions from an idle operation
ExitStarts ==
    /\ cm1.hold_state = FEEDHOLD_HOLD
    /\ cm1.hold_type = FEEDHOLD_TYPE_ACTIONS
    /\ cm1.cycle_state = CYCLE_START_REQUESTED
    /\ cm1.flush_state # FLUSH_REQUESTED
    /\ op = InitOp

C14_ExitAct ==
    /\ (TickStep /\ ExitStarts) =>
          /\ cm1'.hold_state = FEEDHOLD_HOLD_EXIT_PENDING
          /\ ext'.coolant = "RESUME" /\ ext'.spindle = "RESUME"
          /\ Machine'[mp].q =
                Machine[mp].q \o <<"move", "_feedhold_exit_sync_to_planner">>
          /\ cm' = cm
          /\ h'.calls # <<>>
          /\ \A i \in 1..Len(h'.calls) :
                /\ h'.calls[i].fn = "_feedhold_exit_with_actions"
                /\ h'.calls[i].ret = STAT_EAGAIN
    /\ (TickStep /\ op.func[op.run] = "_feedhold_exit_with_actions"
                 /\ cm1.flush_state # FLUSH_REQUESTED
                 /\ cm1.hold_state = FEEDHOLD_HOLD_EXIT_PENDING) =>
          /\ cm1' = cm1 /\ cm2' = cm2 /\ cm' = cm /\ op' = op
          /\ mp1' = mp1 /\ mp2' = mp2
    /\ (TickStep /\ op.func[op.run] = "_feedhold_exit_with_actions"
                 /\ cm1.hold_state = FEEDHOLD_HOLD_EXIT_DONE) =>
          /\ h'.calls # <<>>
          /\ h'.calls[1].fn = "_feedhold_exit_with_actions"
          /\ h'.calls[1].ret = STAT_OK
          /\ PrimaryActive(Machine')

C14_ExitActionSteps == [](C14_ExitInv) /\ [][C14_ExitAct]_vars

\* the tick has completed the exit action and is back on the primary machine
C14_Witness ==
    /\ h.last.call = "tick"
    /\ h.calls # <<>>
    /\ h.calls[1].fn = "_feedhold_exit_with_actions"
    /\ h.calls[1].ret = STAT_OK
    /\ PrimaryActive(Machine)

\* C15: whichever termination action (_cycle_exit, _program_stop,
\* _program_end, _alarm, _shutdown, _interlock) has run right after the exit
\* action returned STAT_OK, cm1.hold_state is FEEDHOLD_OFF when the tick
\* that ran it is over.
C15_ExitEndsOff ==
    (/\ h.last.call = "tick"
     /\ Len(h.calls) >= 2
     /\ Last(h.calls).fn \in FinalFns
     /\ Last(h.calls).ret = STAT_OK
     /\ h.calls[Len(h.calls) - 1].fn \in ExitFns
     /\ h.calls[Len(h.calls) - 1].ret = STAT_OK) =>
        cm1.hold_state = FEEDHOLD_OFF

\* the tick has promoted a queue flush: arc aborted, a planner reset
FlushRun == ext.arc_abort
\* no machine is in motion
RuntimeIdle ==
    cm1.motion_state = MOTION_STOP /\ cm2.motion_state = MOTION_STOP

\* C17: a tick promotes a requested queue flush (arc aborted, primary
\* planner reset, cm1.flush_state = FLUSH_WAS_RUN) when cm1.hold_state is
\* FEEDHOLD_HOLD and no machine is in motion, and only then: a tick at any
\* other hold state or with motion running leaves cm1.flush_state at
\* FLUSH_REQUESTED, aborts no arc and leaves the primary planner queue with
\* what it held.
C17_Act ==
    (TickStep /\ cm1.flush_state = FLUSH_REQUESTED) =>
       IF cm1.hold_state = FEEDHOLD_HOLD /\ RuntimeIdle
       THEN /\ cm1'.flush_state = FLUSH_WAS_RUN
            /\ FlushRun'
            /\ mp1'.q = <<>>
       ELSE /\ cm1'.flush_state = FLUSH_REQUESTED
            /\ ~FlushRun'
            /\ \E i \in 0..Len(mp1'.q) : SubSeq(mp1'.q, 1, i) = mp1.q

C17_FlushOnlyAtIdleHold == [][C17_Act]_vars

FlushStep == h'.last.call = "cm_request_queue_flush"

\* C18: a queue flush requested while cm1.hold_state is FEEDHOLD_OFF has no
\* effect: the request leaves cm1.flush_state at FLUSH_OFF, and the tick
\* that follows it aborts no arc, leaves cm1.flush_state at FLUSH_OFF and
\* leaves the primary planner queue with what it held.
C18_Act ==
    /\ (FlushStep /\ cm1.hold_state = FEEDHOLD_OFF
                  /\ cm1.flush_state = FLUSH_OFF) =>
          /\ cm1'.flush_state = FLUSH_OFF
          /\ mp1' = mp1
    /\ (TickStep /\ h.last.call = "cm_request_queue_flush"
                 /\ cm1.hold_state = FEEDHOLD_OFF) =>
          /\ cm1'.flush_state = FLUSH_OFF
          /\ ~FlushRun'
          /\ \E i \in 0..Len(mp1'.q) : SubSeq(mp1'.q, 1, i) = mp1.q

C18_FlushAtOffIgnored == [][C18_Act]_vars

\* C19: _feedhold_exit_with_actions called at FEEDHOLD_HOLD_EXIT_DONE: with
\* cm1.flush_state = FLUSH_WAS_RUN it sets the position of the primary
\* planner (and of cm1) to the position of the primary runtime and sets
\* cm1.flush_state to FLUSH_OFF; with any other flush state it leaves these
\* positions and cm1.flush_state as they were.
C19_Then(m, r) ==
    m.cm1.hold_state = FEEDHOLD_HOLD_EXIT_DONE =>
       IF m.cm1.flush_state = FLUSH_WAS_RUN
       THEN /\ r.m.mp1.position = m.mr1.position
            /\ r.m.cm1.gmx.position = m.mr1.position
            /\ r.m.mr1 = m.mr1
            /\ r.m.cm1.flush_state = FLUSH_OFF
       ELSE /\ r.m.mp1.position = m.mp1.position
            /\ r.m.cm1.gmx.position = m.cm1.gmx.position
            /\ r.m.mr1 = m.mr1
            /\ r.m.cm1.flush_state = m.cm1.flush_state

C19_FlushReconciled == C19_Then(Machine, _feedhold_exit_with_actions(Machine))

\* the exit action is about to finish a hold during which a flush was run,
\* and cm1 is not where the runtime is
C19_Witness ==
    /\ cm1.hold_state = FEEDHOLD_HOLD_EXIT_DONE
    /\ cm1.flush_state = FLUSH_WAS_RUN
    /\ op.func[op.run] = "_feedhold_exit_with_actions"
    /\ cm1.gmx.position # mr1.position

(***************************************************************************)
(* One hold with actions and final cycle, resumed once it holds            *)
(***************************************************************************)
\* ! with FEEDHOLD_TYPE_ACTIONS and FEEDHOLD_FINAL_CYCLE, on the moving
\* primary machine that is not holding
RequestHoldWithActions ==
    /\ ~fault
    /\ h.nreq < MaxFeedholdRequests
    /\ cm = "cm1"
    /\ cm1.hold_state = FEEDHOLD_OFF
    /\ cm1.motion_state = MOTION_RUN
    /\ Install(Requested(cm_request_feedhold(Enter, FEEDHOLD_TYPE_ACTIONS,
                                             FEEDHOLD_FINAL_CYCLE),
                         FEEDHOLD_TYPE_ACTIONS, FEEDHOLD_FINAL_CYCLE))

\* ~ once the hold state is FEEDHOLD_HOLD
ResumeAtHold ==
    /\ cm1.hold_state = FEEDHOLD_HOLD
    /\ RequestCycleStart

NextHold ==
    \/ RequestHoldWithActions
    \/ ResumeAtHold
    \/ Tick
    \/ SetMotion
    \/ HoldPoint
    \/ ExecBuffer

SpecHold == Init /\ [][NextHold]_vars

HoldOrder ==
    <<FEEDHOLD_OFF, FEEDHOLD_SYNC, FEEDHOLD_HOLD_ACTION_START,
      FEEDHOLD_HOLD_PENDING, FEEDHOLD_HOLD_DONE, FEEDHOLD_HOLD,
      FEEDHOLD_HOLD_EXIT_PENDING, FEEDHOLD_HOLD_EXIT_DONE, FEEDHOLD_OFF>>

\* C16: a hold with actions and final cycle, requested on the moving primary
\* machine and resumed by a cycle start request made once it holds, takes
\* cm1.hold_state through FEEDHOLD_SYNC, HOLD_ACTION_START, HOLD_PENDING,
\* HOLD_DONE, HOLD, HOLD_EXIT_PENDING and HOLD_EXIT_DONE in this order and
\* back to FEEDHOLD_OFF with the primary machine active.  Stated on the
\* steps: the state only moves to its successor in this order, and each
\* tick that the scenario waits for moves it on: the tick at
\* HOLD_ACTION_START to HOLD_PENDING, the tick at HOLD_DONE to HOLD, the tick
\* after the cycle start request at HOLD to HOLD_EXIT_PENDING, the tick at
\* HOLD_EXIT_DONE to FEEDHOLD_OFF on the primary machine.
C16_InOrder ==
    cm1'.hold_state # cm1.hold_state =>
       \E i \in 1..(Len(HoldOrder) - 1) :
          /\ cm1.hold_state = HoldOrder[i]
          /\ cm1'.hold_state = HoldOrder[i + 1]

C16_Progress ==
    TickStep =>
       /\ cm1.hold_state = FEEDHOLD_HOLD_ACTION_START =>
             cm1'.hold_state = FEEDHOLD_HOLD_PENDING
       /\ cm1.hold_state = FEEDHOLD_HOLD_DONE =>
             cm1'.hold_state = FEEDHOLD_HOLD
       /\ (cm1.hold_state = FEEDHOLD_HOLD
           /\ h.last.call = "cm_request_cycle_start") =>
             cm1'.hold_state = FEEDHOLD_HOLD_EXIT_PENDING
       /\ cm1.hold_state = FEEDHOLD_HOLD_EXIT_DONE =>
             /\ cm1'.hold_state = FEEDHOLD_OFF
             /\ PrimaryActive(Machine')

C16_HoldCompletes == [][C16_InOrder /\ C16_Progress]_vars

(***************************************************************************)
(* A hold with actions that stays at FEEDHOLD_HOLD while the secondary     *)
(* machine moves and is held in turn                                       *)
(***************************************************************************)
\* a move arrives for the secondary machine while the primary one holds
MoveAtHold ==
    /\ ~fault
    /\ cm1.hold_state = FEEDHOLD_HOLD
    /\ cm = "cm2"
    /\ ~HasMove(mp2.q)
    /\ Install([mp_queue_command(Enter, "move") EXCEPT
          !.h.last = [call |-> "move", status |-> "none"]])

\* ! while the primary machine holds and the secondary one is not held
RequestAtHold ==
    /\ ~fault
    /\ h.nreq < MaxFeedholdRequests
    /\ cm1.hold_state = FEEDHOLD_HOLD
    /\ cm2.hold_state = FEEDHOLD_OFF
    /\ \E type \in HoldTypes, final \in RequestFinals(h.nreq) :
         Install(Requested(cm_request_feedhold(Enter, type, final),
                           type, final))

\* the execution engine has brought the secondary machine to its sync point
SyncPoint ==
    /\ ~fault
    /\ cm2.hold_state = FEEDHOLD_SYNC
    /\ Install(Engine([Enter EXCEPT !.cm2.hold_state = FEEDHOLD_OFF]))

NextNested ==
    \/ RequestHoldWithActions
    \/ MoveAtHold
    \/ RequestAtHold
    \/ SyncPoint
    \/ Tick
    \/ SetMotion
    \/ HoldPoint
    \/ ExecBuffer

SpecNested == Init /\ [][NextNested]_vars

\* C20: a feedhold requested while cm1.hold_state is FEEDHOLD_HOLD and the
\* secondary machine is moving and not held sets cm2.hold_state to
\* FEEDHOLD_SYNC (through FEEDHOLD_REQUESTED, inside the request) and adds
\* _feedhold_with_sync and nothing else; it does not change the active
\* machine, queues no move and no command, and asks for no spindle or
\* coolant pause.  cm2.hold_state changes only from FEEDHOLD_OFF to
\* FEEDHOLD_REQUESTED or FEEDHOLD_SYNC, from FEEDHOLD_REQUESTED to
\* FEEDHOLD_SYNC and from FEEDHOLD_SYNC to FEEDHOLD_OFF; while it is not
\* FEEDHOLD_OFF, cm1.hold_state stays FEEDHOLD_HOLD, the secondary machine
\* stays active and a tick runs no action but _feedhold_with_sync.
C20_Request ==
    (RequestStep /\ cm1.hold_state = FEEDHOLD_HOLD
                 /\ cm2.hold_state = FEEDHOLD_OFF
                 /\ cm2.motion_state = MOTION_RUN) =>
       /\ cm2'.hold_state = FEEDHOLD_SYNC
       /\ h'.adds = <<[fn |-> "_feedhold_with_sync", status |-> STAT_OK]>>
       /\ op'.func[op'.run] = "_feedhold_with_sync"
       /\ cm' = cm /\ mp' = mp /\ mr' = mr
       /\ mp1' = mp1 /\ mp2' = mp2
       /\ ext' = InitExt

C20_Path ==
    cm2'.hold_state # cm2.hold_state =>
       <<cm2.hold_state, cm2'.hold_state>> \in
          {<<FEEDHOLD_OFF, FEEDHOLD_REQUESTED>>,
           <<FEEDHOLD_OFF, FEEDHOLD_SYNC>>,
           <<FEEDHOLD_REQUESTED, FEEDHOLD_SYNC>>,
           <<FEEDHOLD_SYNC, FEEDHOLD_OFF>>}

C20_During ==
    cm2.hold_state # FEEDHOLD_OFF =>
       /\ cm1.hold_state = FEEDHOLD_HOLD /\ cm1'.hold_state = FEEDHOLD_HOLD
       /\ cm = "cm2" /\ cm' = cm
       /\ TickStep =>
             /\ \A i \in 1..Len(h'.calls) :
                   h'.calls[i].fn = "_feedhold_with_sync"
             /\ ext'.spindle = "none" /\ ext'.coolant = "none"
             /\ mp1' = mp1 /\ mp2' = mp2

C21_SecondaryInsidePrimary ==
    cm2.hold_state # FEEDHOLD_OFF => cm1.hold_state # FEEDHOLD_OFF

\* C22: each completion callback writes cm1.hold_state (FEEDHOLD_HOLD_DONE
\* for the entry callback, FEEDHOLD_HOLD_EXIT_DONE for the exit callback) and
\* the status report request, and nothing else: the active machine, planner
\* and runtime, the operation, cm2, the planners and every other field of
\* cm1 are as they were.
C22_Frame(m, r, state) ==
    /\ r.cm1 = [m.cm1 EXCEPT !.hold_state = state]
    /\ r.ext = [m.ext EXCEPT !.sr_request = TRUE]
    /\ r.cm = m.cm /\ r.mp = m.mp /\ r.mr = m.mr
    /\ r.op = m.op /\ r.fault = m.fault
    /\ r.cm2 = m.cm2
    /\ r.mp1 = m.mp1 /\ r.mp2 = m.mp2 /\ r.mr1 = m.mr1 /\ r.mr2 = m.mr2

C22_CallbacksWriteOneField ==
    /\ C22_Frame(Machine, _feedhold_sync_to_planner(Machine),
                 FEEDHOLD_HOLD_DONE)
    /\ C22_Frame(Machine, _feedhold_exit_sync_to_planner(Machine),
                 FEEDHOLD_HOLD_EXIT_DONE)

\* the engine has just run the exit callback during a hold with actions
C22_Witness ==
    /\ h.last.call = "engine"
    /\ cm1.hold_state = FEEDHOLD_HOLD_EXIT_DONE
    /\ ext.sr_request
    /\ cm = "cm2"

\* C23: the active machine changes in two steps only: the tick that runs
\* _feedhold_with_actions at FEEDHOLD_HOLD_ACTION_START (cm1 to cm2) and the
\* tick that runs _feedhold_exit_with_actions at FEEDHOLD_HOLD_EXIT_DONE (cm2
\* to cm1).  The request setters, the initiation steps of the sequencing
\* callback, the callbacks and every other action function leave it as it
\* is.
C23_Act ==
    cm' # cm =>
       /\ TickStep
       /\ \/ /\ cm = "cm1" /\ cm' = "cm2"
             /\ cm1.hold_state = FEEDHOLD_HOLD_ACTION_START
             /\ CallsOf(h'.calls, "_feedhold_with_actions") # <<>>
          \/ /\ cm = "cm2" /\ cm' = "cm1"
             /\ cm1.hold_state = FEEDHOLD_HOLD_EXIT_DONE
             /\ CallsOf(h'.calls, "_feedhold_exit_with_actions") # <<>>

C23_Others ==
    /\ \A type \in HoldTypes, final \in HoldFinals :
          cm_request_feedhold(Machine, type, final).cm = cm
    /\ cm_request_cycle_start(Machine).cm = cm
    /\ cm_request_queue_flush(Machine).cm = cm
    /\ SequenceFeedhold(Machine).cm = cm
    /\ SequenceFlush(Machine).cm = cm
    /\ AddExitFinalAction(AddExitAction(Machine)).cm = cm
    /\ _feedhold_sync_to_planner(Machine).cm = cm
    /\ _feedhold_exit_sync_to_planner(Machine).cm = cm
    /\ \A f \in (EntryFns \cup ExitFns \cup FinalFns)
                   \ {"_feedhold_with_actions", "_feedhold_exit_with_actions"} :
          CallAction(Machine, f).m.cm = cm

C23_HandleChangesTwice == [](C23_Others) /\ [][C23_Act]_vars

\* the tick has returned to the primary machine
C23_Witness ==
    /\ h.last.call = "tick"
    /\ cm = "cm1"
    /\ CallsOf(h.calls, "_feedhold_exit_with_actions") # <<>>
    /\ ext.coolant = "none"

\* C24: a tick initiates the feedhold, then the queue flush, then the cycle
\* start, and then runs the operation, whose status it returns.  A tick that
\* finds cm1 moving with hold_state FEEDHOLD_REQUESTED and the cycle start
\* requested adds the entry action, leaves cm1.hold_state at FEEDHOLD_SYNC
\* and makes no direct cycle start.
C24_AtRun(c, o) ==
    ~fault => cm_operation_sequencing_callback(Machine, o) = run_operation(c, o)

C24_AtCycleStart(b, o) ==
    C24_AtRun(IF b.cm1.cycle_state = CYCLE_START_REQUESTED
              THEN _initiate_cycle_start(b, o) ELSE b, o)

C24_AtFlush(a, o) ==
    C24_AtCycleStart(IF a.cm1.flush_state = FLUSH_REQUESTED
                     THEN _initiate_queue_flush(a) ELSE a, o)

C24_Steps ==
    \A o \in UbOracles :
       C24_AtFlush(IF cm1.hold_state = FEEDHOLD_REQUESTED
                   THEN _initiate_feedhold(Machine) ELSE Machine, o)

C24_Act ==
    (TickStep /\ cm1.hold_state = FEEDHOLD_REQUESTED
              /\ cm1.motion_state = MOTION_RUN
              /\ cm1.cycle_state = CYCLE_START_REQUESTED) =>
       /\ cm1'.hold_state = FEEDHOLD_SYNC
       /\ ext'.cycle = "none"
       /\ ~ext'.exec_move
       /\ h'.adds # <<>>
       /\ h'.adds[1].fn = EntryFn(cm1.hold_type)

C24_TickOrder == [](C24_Steps) /\ [][C24_Act]_vars

\* the tick has initiated a feedhold although a cycle start was requested
C24_Witness ==
    /\ h.last.call = "tick"
    /\ cm1.hold_state = FEEDHOLD_SYNC
    /\ cm1.cycle_state = CYCLE_START_REQUESTED
    /\ h.adds # <<>>
    /\ h.calls # <<>>

\* C25: from the switch to the secondary machine until the return to the
\* primary one, no step changes the Gcode model of cm1 (target, distance
\* mode, feed rate, motion mode, absolute override, target_comp): the Z
\* lift, the distance mode changes, the return move and the requests made
\* during the hold act on cm2.
C25_Act == cm' = "cm2" => cm1'.gm = cm1.gm

C25_PrimaryModelKept == [][C25_Act]_vars

\* the exit action has queued the return move on the secondary machine
C25_Witness ==
    /\ h.last.call = "tick"
    /\ cm = "cm2"
    /\ cm1.hold_state = FEEDHOLD_HOLD_EXIT_PENDING
    /\ CallsOf(h.calls, "_feedhold_exit_with_actions") # <<>>
    /\ cm2.gm.target # cm1.gm.target

CycleStartStep == h'.last.call = "cm_request_cycle_start"

\* C26: a cycle start requested while cm1.hold_state is FEEDHOLD_OFF adds no
\* action and leaves the hold state and the active machine as they are, in
\* the request and in the tick that finds it: that tick makes the direct
\* cycle start (cm_cycle_start, st_request_exec_move), adds no action and
\* calls no exit action.
C26_Act ==
    /\ (CycleStartStep /\ cm1.hold_state = FEEDHOLD_OFF) =>
          /\ h'.adds = <<>> /\ h'.calls = <<>>
          /\ op' = op
          /\ cm1'.hold_state = FEEDHOLD_OFF
          /\ cm' = cm
          /\ ext' = InitExt
    /\ (TickStep /\ cm1.hold_state = FEEDHOLD_OFF
                 /\ cm1.cycle_state = CYCLE_START_REQUESTED) =>
          /\ h'.adds = <<>>
          /\ \A i \in 1..Len(h'.calls) : h'.calls[i].fn \notin ExitFns
          /\ cm1'.hold_state = FEEDHOLD_OFF
          /\ cm' = cm
          /\ ext'.cycle = "start" /\ ext'.exec_move

BeforeHold ==
    {FEEDHOLD_SYNC, FEEDHOLD_HOLD_ACTION_START, FEEDHOLD_HOLD_PENDING,
     FEEDHOLD_HOLD_DONE}

\* ~ after the feedhold was initiated and before the hold state is
\* FEEDHOLD_HOLD
ResumeBeforeHold ==
    /\ cm1.hold_state \in BeforeHold
    /\ RequestCycleStart

NextEarly ==
    \/ RequestHoldWithActions
    \/ ResumeBeforeHold
    \/ Tick
    \/ SetMotion
    \/ HoldPoint
    \/ ExecBuffer

SpecEarly == Init /\ [][NextEarly]_vars

\* a cycle start was requested, on whichever machine was active
CycleStartAsked ==
    \/ cm1.cycle_state = CYCLE_START_REQUESTED
    \/ cm2.cycle_state = CYCLE_START_REQUESTED

\* C27: a cycle start requested at FEEDHOLD_SYNC, HOLD_ACTION_START,
\* HOLD_PENDING or HOLD_DONE is kept: no tick before FEEDHOLD_HOLD calls an
\* exit action, the tick that finds cm1.hold_state at FEEDHOLD_HOLD starts
\* the exit (FEEDHOLD_HOLD_EXIT_PENDING) with no further request, and the
\* tick at FEEDHOLD_HOLD_EXIT_DONE ends it with cm1.hold_state at
\* FEEDHOLD_OFF on the primary machine and the cycle started or ended.
C27_Act ==
    TickStep =>
       /\ cm1.hold_state \in BeforeHold =>
             /\ cm1'.hold_state \in BeforeHold \cup {FEEDHOLD_HOLD}
             /\ \A i \in 1..Len(h'.calls) : h'.calls[i].fn \notin ExitFns
       /\ (cm1.hold_state = FEEDHOLD_HOLD /\ CycleStartAsked) =>
             cm1'.hold_state = FEEDHOLD_HOLD_EXIT_PENDING
       /\ cm1.hold_state = FEEDHOLD_HOLD_EXIT_DONE =>
             /\ cm1'.hold_state = FEEDHOLD_OFF
             /\ PrimaryActive(Machine')
             /\ ext'.cycle # "none"

C27_EarlyCycleStartKept == [][C27_Act]_vars

\* C28: _cycle_exit returns STAT_OK after either resuming (cm_cycle_start
\* and st_request_exec_move), which it does exactly when the primary planner
\* has a runnable buffer, or ending the cycle (cm_cycle_end), never both and
\* never neither.
C28_Then(m, r) ==
    /\ r.status = STAT_OK
    /\ IF mp_has_runnable_buffer(m, "mp1")
       THEN r.m.ext = [m.ext EXCEPT !.cycle = "start", !.exec_move = TRUE]
       ELSE r.m.ext = [m.ext EXCEPT !.cycle = "end"]

C28_Inv == C28_Then(Enter, _cycle_exit(Enter))

C28_Act ==
    (TickStep /\ CallsOf(h'.calls, "_cycle_exit") # <<>>) =>
       /\ CallsOf(h'.calls, "_cycle_exit")[1].ret = STAT_OK
       /\ \/ ext'.cycle = "start" /\ ext'.exec_move /\ mp1'.q # <<>>
          \/ ext'.cycle = "end" /\ ~ext'.exec_move /\ mp1'.q = <<>>

C28_CycleExit == [](C28_Inv) /\ [][C28_Act]_vars

\* a tick has run _cycle_exit with a move left in the primary planner
C28_Witness ==
    /\ h.last.call = "tick"
    /\ CallsOf(h.calls, "_cycle_exit") # <<>>
    /\ ext.cycle = "start" /\ ext.exec_move
    /\ mp1.q # <<>>
    /\ cm1.hold_state = FEEDHOLD_OFF

(***************************************************************************)
(* One hold with actions, resumed, where the execution engine may run the  *)
(* exit callback as soon as it is queued                                   *)
(***************************************************************************)
\* the execution engine interrupts the caller: it runs what the active
\* planner holds, the exit callback included
RunQueued(m) == _feedhold_exit_sync_to_planner([m EXCEPT ![m.mp].q = <<>>])

\* the first-time code of _feedhold_exit_with_actions, interrupted between
\* mp_queue_command and the write of the hold state
HoldExitInterrupted(m) == HoldExitPending(RunQueued(HoldExitQueued(m)))

\* what the interrupt leaves of itself in the state the caller ends in: the
\* planner is empty and the status report is requested
Interrupted(m) == sr_request_status_report([m EXCEPT ![m.mp].q = <<>>])

\* ~ before the switch to the secondary machine
ResumeAtSync ==
    /\ cm1.hold_state = FEEDHOLD_SYNC
    /\ RequestCycleStart

\* the tick that starts the exit, interrupted in the first-time code of the
\* exit action
TickInterrupted ==
    /\ ~fault
    /\ ExitStarts
    /\ \E o \in UbOracles :
         Install([Ticked(Interrupted(
                     cm_operation_sequencing_callback(Enter, o).m))
                    EXCEPT !.h.last.status = "interrupted"])

NextRace ==
    \/ RequestHoldWithActions
    \/ ResumeAtSync
    \/ Tick
    \/ TickInterrupted
    \/ SetMotion
    \/ HoldPoint
    \/ ExecBuffer

SpecRace == Init /\ [][NextRace]_vars

\* the interrupted tick ends where the interrupted first-time code ends
InterruptedAsCode ==
    cm1.hold_state = FEEDHOLD_HOLD =>
       HoldExitInterrupted(Machine) = Interrupted(HoldExitActions(Machine))

Queued(q, f) == \E i \in 1..Len(q) : q[i] = f

\* C29: no completion is lost.  While cm1.hold_state is FEEDHOLD_HOLD_PENDING
\* the entry callback is still queued, and while it is
\* FEEDHOLD_HOLD_EXIT_PENDING the exit callback is still queued, in the
\* secondary planner: a callback that has run has left FEEDHOLD_HOLD_DONE or
\* FEEDHOLD_HOLD_EXIT_DONE for the next call of the action, whenever it ran
\* after it was queued.
C29_NoCompletionLost ==
    /\ cm1.hold_state = FEEDHOLD_HOLD_PENDING =>
          Queued(mp2.q, "_feedhold_sync_to_planner")
    /\ cm1.hold_state = FEEDHOLD_HOLD_EXIT_PENDING =>
          Queued(mp2.q, "_feedhold_exit_sync_to_planner")

\* C30: whenever cm1.hold_state is FEEDHOLD_OFF the primary machine is the
\* active one, whatever the hold types and finals requested and however the
\* requests interleave.
C30_PrimaryActiveWhenOff ==
    cm1.hold_state = FEEDHOLD_OFF => PrimaryActive(Machine)

\* C31: run_operation never reads through a run pointer that is outside the
\* 12 slots: the run pointer is one of the slots in every state, no call has
\* ended in the fault of such a read, and the call in which the action of
\* the 12th slot of a full list returns STAT_OK resets the runner and
\* returns STAT_OK.
C31_RunInSlots ==
    /\ op.run \in 1..ACTION_MAX
    /\ ~fault
    /\ (h.last.call = "run" /\ Len(h.done) = ACTION_MAX) =>
          /\ h.last.status = STAT_OK
          /\ op = [InitOp EXCEPT !.param = op.param]

\* C32: a feedhold requested while the primary machine is active and
\* cm1.hold_state is FEEDHOLD_SYNC, FEEDHOLD_HOLD_ACTION_START or
\* FEEDHOLD_HOLD leaves cm1.hold_state where it is: the request does not take
\* it back to FEEDHOLD_REQUESTED or FEEDHOLD_SYNC.
C32_Act ==
    (RequestStep /\ cm = "cm1"
                 /\ cm1.hold_state \in {FEEDHOLD_SYNC,
                                        FEEDHOLD_HOLD_ACTION_START,
                                        FEEDHOLD_HOLD}) =>
       cm1'.hold_state = cm1.hold_state

C32_RequestNeverRegresses == [][C32_Act]_vars

\* C33: whenever cm1.hold_state is FEEDHOLD_HOLD between two calls, the
\* operation is idle: in_operation is false and no action is at the run
\* pointer, so that add_action accepts the exit and termination actions of
\* a later _initiate_cycle_start. This includes holds that were requested
\* twice, where two entry actions are in the list.
C33_IdleAtHold ==
    cm1.hold_state = FEEDHOLD_HOLD =>
       /\ ~op.in_operation
       /\ op.func[op.run] = NULLFUNC

\* C34: a call in which add_action rejects an entry action (STAT_COMMAND_NOT_
\* ACCEPTED while an operation runs, STAT_INPUT_EXCEEDS_MAX_LENGTH when the
\* list is full) does not leave the hold state of the requesting machine at
\* FEEDHOLD_SYNC: cm1.hold_state for the entry action of cm1.hold_type,
\* cm2.hold_state for the _feedhold_with_sync of a secondary request.
C34_Rejected(adds) ==
    \E i \in 1..Len(adds) : /\ adds[i].fn \in EntryFns
                            /\ adds[i].status # STAT_OK

C34_Act ==
    (RequestStep /\ C34_Rejected(h'.adds)) =>
       /\ h'.req.cm = "cm1" => cm1'.hold_state # FEEDHOLD_SYNC
       /\ h'.req.cm = "cm2" => cm2'.hold_state # FEEDHOLD_SYNC

C34_SyncOnlyWhenAccepted == [][C34_Act]_vars

\* C35: between two states with cm1.hold_state = FEEDHOLD_OFF the first-time
\* code of _feedhold_with_actions (the switch to the secondary machine, the
\* Z lift, the spindle pause and the coolant pause) runs in at most one
\* tick, however many entry actions are in the list.
C35_SwitchOncePerHold == h.switches <= 1

(***************************************************************************)
(* One cycle start request, made and promoted before any feedhold          *)
(***************************************************************************)
\* ~ as the first call, with cm1.hold_state at FEEDHOLD_OFF
ResumeAtOff ==
    /\ h.last.call = "init"
    /\ RequestCycleStart

\* the tick that follows the request, and every later tick
TickAfterResume ==
    /\ h.last.call # "init"
    /\ Tick

\* the request was made and a tick has called _initiate_cycle_start for it
Started == h.last.call \notin {"init", "cm_request_cycle_start"}

RequestAfterStart ==
    /\ Started
    /\ RequestFeedhold

MotionAfterStart ==
    /\ Started
    /\ SetMotion

HoldPointAfterStart ==
    /\ Started
    /\ HoldPoint

ExecAfterStart ==
    /\ Started
    /\ ExecBuffer

NextStarted ==
    \/ ResumeAtOff
    \/ TickAfterResume
    \/ RequestAfterStart
    \/ MotionAfterStart
    \/ HoldPointAfterStart
    \/ ExecAfterStart

SpecStarted == Init /\ [][NextStarted]_vars

\* C36: the one cycle start request was promoted by the tick that followed
\* it (a direct cycle start at FEEDHOLD_OFF) and no other request is made:
\* a later feedhold that reaches FEEDHOLD_HOLD is still at FEEDHOLD_HOLD
\* after every tick, and no tick at FEEDHOLD_HOLD adds an exit action.
C36_Act ==
    (TickStep /\ Started /\ cm1.hold_state = FEEDHOLD_HOLD) =>
       /\ cm1'.hold_state = FEEDHOLD_HOLD
       /\ h'.adds = <<>>

C36_RequestExitsOneHold == [][C36_Act]_vars

====
